---- MODULE Spec2Model ----
(***************************************************************************)
(* Model of platform/wasm/lib/mupdf.js: the host-side bridge over the      *)
(* foreign (WASM) document engine.  The state is the set of Wrapper        *)
(* objects the host has constructed, the FinalizationRegistry, the         *)
(* libmupdf binding (factory before instantiation, module after) and the   *)
(* mupdf.ready promise, and of the foreign side what the bridge reads     *)
(* back (shared memory, engine buffers, the outline tree).  Every          *)
(* host-callable operation is one action; the record lastOp holds what     *)
(* the last operation did at the foreign boundary (the foreign calls it    *)
(* made, in order, and how it ended).                                      *)
(***************************************************************************)
EXTENDS Integers, Sequences, FiniteSets, TLC

VARIABLES libmupdf, ready, objs, finalizer, heap, lastOp,
          HEAP32, HEAPU8, bufs, outline, walk

\* The foreign side: the words of the shared memory (libmupdf.HEAP32, and
\* libmupdf.HEAPF32 over the same words), the bytes written at each
\* allocated block (libmupdf.HEAPU8), the engine's live buffers and the
\* outline tree the engine built for the document.
engine == <<HEAP32, HEAPU8, bufs, outline>>

vars == <<libmupdf, ready, objs, finalizer, heap, lastOp, engine, walk>>

----------------------------------------------------------------------------
\* Bounds of the model.

\* Wrapper objects the host constructs directly, besides the colour spaces.
MaxObjs == 1
\* free() calls explored in one behaviour.
MaxFrees == 2
\* Longest foreign link / annotation chain.
MaxChain == 2
\* Scratch offsets the foreign allocator hands out are 1..MaxOffset.
MaxOffset == 2
\* Largest hit count the foreign search reports in the explored runs.
MaxHits == 1
\* Words of the shared memory the decoders are run over: 0..MaxWords-1.
MaxWords == 7
\* Largest page number passed to loadPage.
MaxPages == 2
\* Largest stride, height and byte size the engine reports.
MaxSize == 2
\* Longest host string marshalled, in characters.
MaxLen == 2

\* mupdf.DeviceGray, DeviceRGB, DeviceBGR, DeviceCMYK
NumDevices == 4

\* const MAX_HIT_COUNT = 500
MAX_HIT_COUNT == 500

\* Object identities.  The four colour spaces, then the objects the host
\* constructs, then the objects the facade itself constructs and returns:
\* the one collection (Links or Annotations) a traversal returns and its
\* elements, the page loadPage returns, the Outline objects of a walk.
DeviceIds == 1..NumDevices
UserIds == (NumDevices + 1)..(NumDevices + MaxObjs)
CollId == NumDevices + MaxObjs + 1
ElemIds == (CollId + 1)..(CollId + MaxChain)
ObjIds == 1..(CollId + MaxChain)

\* Foreign handles are non-zero numbers.  The engine gives every object it
\* creates a handle of its own: the handle wrapped by object o is o, and
\* the nodes of a link or annotation chain have the handles ChainHandles.
DeviceHandle(i) == i
ChainHandles == ElemIds
Offsets == 1..MaxOffset

\* The foreign calls of the bootstrap callback, in program order.
BootCalls ==
    << "_wasm_init_context", "_wasm_device_gray", "_wasm_device_rgb",
       "_wasm_device_bgr", "_wasm_device_cmyk" >>

Classes ==
    { "Document", "Page", "PdfPage", "Links", "Link", "Outline",
      "Annotations", "Annotation", "ColorSpace", "Pixmap", "Buffer",
      "Output", "STextPage" }

\* The foreign drop entry points.
DropEntries ==
    { "_wasm_drop_document", "_wasm_drop_page", "_wasm_drop_colorspace",
      "_wasm_drop_pixmap", "_wasm_drop_buffer" }

----------------------------------------------------------------------------
\* Helpers

Range(s) == { s[i] : i \in DOMAIN s }

Call(fn, args) == [fn |-> fn, args |-> args]

\* What an operation did at the foreign boundary.
OpRec(op, obj, ptr, freed, calls, err) ==
    [ op |-> op, obj |-> obj, ptr |-> ptr, freed |-> freed,
      calls |-> calls, err |-> err,
      chain |-> << >>, out |-> << >>, mallocs |-> << >>, frees |-> << >>,
      args |-> << >>, rets |-> << >> ]

NoObj ==
    [ cls |-> "none", pointer |-> 0, dropFunction |-> "noop",
      reachable |-> FALSE, frees |-> 0, dropRuns |-> 0,
      pdfPagePointer |-> 0, elems |-> << >> ]

\* libmupdf.<entry>: a property of the module once libmupdf = m; before
\* that libmupdf is the factory function, which has no such property.
Lookup(lib, entry) == IF lib = "module" THEN entry ELSE "undefined"

----------------------------------------------------------------------------
\* Wrapper (lines 89-108)

\* The dropFunction each class's constructor passes to super().
DropFunctionOfLink(lib, cls) ==
    CASE cls = "Document" -> Lookup(lib, "_wasm_drop_document")
      [] cls \in {"Page", "PdfPage"} -> Lookup(lib, "_wasm_drop_page")
      [] cls = "ColorSpace" -> Lookup(lib, "_wasm_drop_colorspace")
      [] cls = "Pixmap" -> Lookup(lib, "_wasm_drop_pixmap")
      [] cls = "Link" -> Lookup(lib, "_wasm_drop_link")
      [] OTHER -> "noop"

DropFunctionOf(lib, cls) ==
    CASE cls = "Document" -> Lookup(lib, "_wasm_drop_document")
      [] cls \in {"Page", "PdfPage"} -> Lookup(lib, "_wasm_drop_page")
      [] cls = "ColorSpace" -> Lookup(lib, "_wasm_drop_colorspace")
      [] cls = "Pixmap" -> Lookup(lib, "_wasm_drop_pixmap")
      [] OTHER -> "noop"

\* constructor(pointer, dropFunction): the fields of the new object.
WrapperNew(cls, pointer, dropFunction) ==
    [ cls |-> cls, pointer |-> pointer, dropFunction |-> dropFunction,
      reachable |-> TRUE, frees |-> 0, dropRuns |-> 0,
      pdfPagePointer |-> 0, elems |-> << >> ]

\* finalizer.register(this, () => dropFunction(pointer), this): the cell
\* holds the closure's captured dropFunction and pointer.
Register(reg, target, dropFunction, pointer) ==
    reg \cup { [ target |-> target, dropFunction |-> dropFunction,
                 pointer |-> pointer ] }

UnregisterNothing(reg, token) == reg

\* finalizer.unregister(this)
Unregister(reg, token) == { c \in reg : c.target # token }

\* dropFunction(pointer): a value that is no function raises a TypeError;
\* () => {} does nothing; a foreign drop entry point is called and may
\* report a failure.
CallDrop(d, p, throws) ==
    CASE d = "undefined" ->
           [ calls |-> << >>, err |-> "TypeError", ran |-> FALSE ]
      [] d = "noop" ->
           [ calls |-> << >>, err |-> "none", ran |-> TRUE ]
      [] OTHER ->
           [ calls |-> << Call(d, << p >>) >>,
             err |-> IF throws THEN "MupdfError" ELSE "none",
             ran |-> TRUE ]

\* The host can reach an object it holds a reference to, and the elements
\* of a collection (Links.links, Annotations.annotations) it can reach.
Reachable(o) ==
    \/ objs[o].reachable
    \/ \E c \in ObjIds : objs[c].reachable /\ o \in Range(objs[c].elems)

Live(o) == objs[o].cls # "none" /\ Reachable(o)

\* The slot the next constructed object takes.
FreeSlots == { o \in UserIds : objs[o].cls = "none" }
NextSlot == CHOOSE o \in FreeSlots : \A o2 \in FreeSlots : o <= o2

----------------------------------------------------------------------------
\* free() calls made so far, over all objects.
RECURSIVE SumFrees(_)
SumFrees(n) == IF n = 0 THEN 0 ELSE objs[n].frees + SumFrees(n - 1)

TotalFrees == SumFrees(CollId + MaxChain)

\* The word indices of the modelled part of the shared memory.
Words == 0..(MaxWords - 1)

\* The values a word holds: two values tell any two orders of reading
\* apart.
WordValues == { 0, 1 }

\* No outline loaded yet; no walk over an outline under way.
NoOutline == [ n |-> 0, down |-> << >>, next |-> << >> ]
NoWalk == [ phase |-> "idle", todo |-> << >>, visited |-> << >> ]

\* The host side after the module file is loaded, and an engine that has
\* allocated and built nothing.
InitHost ==
    /\ libmupdf = "factory"
    /\ ready = "pending"
    /\ objs = [ o \in ObjIds |-> NoObj ]
    /\ finalizer = {}
    /\ heap = {}
    /\ lastOp = OpRec("load", 0, 0, FALSE, << >>, "none")
    /\ HEAPU8 = [ a \in Offsets |-> << >> ]
    /\ bufs = {}
    /\ outline = NoOutline
    /\ walk = NoWalk

Init ==
    /\ InitHost
    /\ HEAP32 = [ w \in Words |-> 0 ]

\* free() (lines 97-101)
Free(o, throws) ==
    /\ Live(o)
    /\ TotalFrees < MaxFrees
    /\ LET r == CallDrop(objs[o].dropFunction, objs[o].pointer, throws) IN
       /\ finalizer' = Unregister(finalizer, o)
       /\ objs' = [ objs EXCEPT
                      ![o].pointer = IF r.err = "none" THEN 0 ELSE @,
                      ![o].frees = @ + 1,
                      ![o].dropRuns = IF r.ran THEN @ + 1 ELSE @ ]
       /\ lastOp' = OpRec("free", o, objs[o].pointer, objs[o].frees > 0,
                          r.calls, r.err)
    /\ UNCHANGED <<libmupdf, ready, heap, engine, walk>>

\* The host drops its own references to an object.  The colour spaces stay
\* referenced by the exported mupdf object (lines 524-527).
Release(o) ==
    /\ o \in UserIds \cup {CollId}
    /\ objs[o].cls # "none"
    /\ objs[o].reachable
    /\ objs' = [ objs EXCEPT ![o].reachable = FALSE ]
    /\ lastOp' = OpRec("release", o, objs[o].pointer, objs[o].frees > 0,
                       << >>, "none")
    /\ UNCHANGED <<libmupdf, ready, finalizer, heap, engine, walk>>

\* The collector finds a registered object unreachable and the registry
\* runs its held callback (line 89), () => dropFunction(pointer) (line 95).
Finalize(o, throws) ==
    \E c \in finalizer :
        /\ c.target = o
        /\ ~Reachable(o)
        /\ LET r == CallDrop(c.dropFunction, c.pointer, throws) IN
           /\ finalizer' = finalizer \ {c}
           /\ objs' = [ objs EXCEPT
                          ![o].dropRuns = IF r.ran THEN @ + 1 ELSE @ ]
           /\ lastOp' = OpRec("finalize", o, c.pointer, objs[o].frees > 0,
                              r.calls, r.err)
        /\ UNCHANGED <<libmupdf, ready, heap, engine, walk>>

----------------------------------------------------------------------------
\* Module lifecycle (lines 517-528)

BootFailures == { "none", "instantiate" } \cup Range(BootCalls)

\* How many of BootCalls are made when `fail` is the call that throws.
BootCallsMade(fail) ==
    IF fail = "none" THEN Len(BootCalls)
    ELSE CHOOSE i \in DOMAIN BootCalls : BootCalls[i] = fail

\* Device colour space i is constructed once call i + 1 has returned.
DevicesMade(fail) ==
    { i \in DeviceIds :
        IF fail = "none" THEN TRUE ELSE i + 1 < BootCallsMade(fail) }

\* libmupdf(libmupdf_injections).then(m => { ... }): the instantiation
\* settles; on success the callback runs as one job, and mupdf.ready is
\* fulfilled when it returns and rejected when it throws.
Ready(fail) ==
    /\ ready = "pending"
    /\ IF fail = "instantiate"
       THEN /\ ready' = "rejected"
            /\ lastOp' = OpRec("ready", 0, 0, FALSE, << >>, "MupdfError")
            /\ UNCHANGED <<libmupdf, objs, finalizer>>
       ELSE /\ libmupdf' = "module"
            /\ objs' = [ o \in ObjIds |->
                           IF o \in DevicesMade(fail)
                           THEN WrapperNew("ColorSpace", DeviceHandle(o),
                                           DropFunctionOf("module", "ColorSpace"))
                           ELSE objs[o] ]
            /\ finalizer' =
                 finalizer \cup
                   { [ target |-> o,
                       dropFunction |-> DropFunctionOf("module", "ColorSpace"),
                       pointer |-> DeviceHandle(o) ] : o \in DevicesMade(fail) }
            /\ ready' = IF fail = "none" THEN "resolved" ELSE "rejected"
            /\ lastOp' = OpRec("ready", 0, 0, FALSE,
                               [ i \in 1..BootCallsMade(fail) |->
                                   Call(BootCalls[i], << >>) ],
                               IF fail = "none" THEN "none" ELSE "MupdfError")
    /\ UNCHANGED <<heap, engine, walk>>

----------------------------------------------------------------------------
\* Facade constructors (lines 112-115, 161-164, 241-245, 266-270, 312-316,
\* 342-346, 357-367, 395-399, 457-461, 472-476)

\* The classes whose constructor takes one foreign handle.
HandleClasses == Classes \ { "Links", "Annotations" }

\* new cls(p) (new PdfPage(p, q)) around the handle p the engine returned
\* for the object (for a PdfPage the engine's page seen as a PDF page, q,
\* is that same object): super() binds the handle and registers the object; Pixmap then reads its bounding box through the foreign
\* engine, and when that fails the half-built object is never returned.
Construct(cls, throws) ==
    /\ FreeSlots # {}
    /\ throws => cls = "Pixmap" /\ libmupdf = "module"
    /\ LET o == NextSlot
           p == o
           q == IF cls = "PdfPage" THEN p ELSE 0
           d == DropFunctionOf(libmupdf, cls)
           bbox == Lookup(libmupdf, "_wasm_pixmap_bbox")
           err == IF cls # "Pixmap" THEN "none"
                  ELSE IF bbox = "undefined" THEN "TypeError"
                  ELSE IF throws THEN "MupdfError" ELSE "none"
       IN
       /\ objs' = [ objs EXCEPT
                      ![o] = [ WrapperNew(cls, p, d) EXCEPT
                                 !.pdfPagePointer = q,
                                 !.reachable = (err = "none") ] ]
       /\ finalizer' = Register(finalizer, o, d, p)
       /\ lastOp' = OpRec("new", o, p, FALSE,
                          IF cls = "Pixmap" /\ bbox # "undefined"
                          THEN << Call(bbox, << p >>) >> ELSE << >>,
                          err)
    /\ UNCHANGED <<libmupdf, ready, heap, engine, walk>>

----------------------------------------------------------------------------
\* Facade methods that forward this.pointer to one foreign entry point
\* (lines 135-137, 166-168, 272-274, 322-324, 348-350, 419-421, 467-469),
\* and Pixmap.width (lines 369-371), which reads the cached bbox only.

MethodsOf(cls) ==
    CASE cls = "Document" -> { "countPages" }
      [] cls \in { "Page", "PdfPage" } -> { "bounds" }
      [] cls = "Link" -> { "rect" }
      [] cls = "Outline" -> { "title" }
      [] cls = "Annotation" -> { "bounds" }
      [] cls = "Pixmap" -> { "width" }
      [] cls = "Buffer" -> { "size" }
      [] cls = "Output" -> { "close" }
      [] OTHER -> {}

EntryOf(cls, m) ==
    CASE cls = "Document" /\ m = "countPages" -> "_wasm_count_pages"
      [] cls \in { "Page", "PdfPage" } /\ m = "bounds" -> "_wasm_bound_page"
      [] cls = "Link" /\ m = "rect" -> "_wasm_link_rect"
      [] cls = "Outline" /\ m = "title" -> "_wasm_outline_title"
      [] cls = "Annotation" /\ m = "bounds" -> "_wasm_pdf_bound_annot"
      [] cls = "Buffer" /\ m = "size" -> "_wasm_buffer_size"
      [] cls = "Output" /\ m = "close" -> "_wasm_close_output"
      [] OTHER -> "none"

Method(o, m, throws) ==
    /\ Live(o)
    /\ m \in MethodsOf(objs[o].cls)
    /\ LET e == EntryOf(objs[o].cls, m)
           f == Lookup(libmupdf, e)
       IN
       /\ throws => e # "none" /\ f # "undefined"
       /\ lastOp' =
            OpRec(m, o, objs[o].pointer, objs[o].frees > 0,
                  IF e = "none" \/ f = "undefined" THEN << >>
                  ELSE << Call(f, << objs[o].pointer >>) >>,
                  IF e = "none" THEN "none"
                  ELSE IF f = "undefined" THEN "TypeError"
                  ELSE IF throws THEN "MupdfError" ELSE "none")
    /\ UNCHANGED <<libmupdf, ready, objs, finalizer, heap, engine, walk>>

AllMethods == UNION { MethodsOf(c) : c \in Classes }

----------------------------------------------------------------------------
\* Traversal of foreign chains: Page.loadLinks (lines 197-205) and
\* PdfPage.annotations (lines 247-255)

\* The foreign chains explored: finite, acyclic, ended by the zero handle.
Chains ==
    UNION { { c \in [1..n -> ChainHandles] :
                \A i, j \in 1..n : i # j => c[i] # c[j] } : n \in 0..MaxChain }

\* The foreign "first" accessor on a page whose chain is `chain`.
FirstOf(chain) == IF chain = << >> THEN 0 ELSE chain[1]

\* The foreign "next" accessor on node h of `chain`.
NextOf(chain, h) ==
    LET i == CHOOSE k \in DOMAIN chain : chain[k] = h
    IN IF i = Len(chain) THEN 0 ELSE chain[i + 1]

\* The body and update of the for loop: push the node, ask for the next.
\* failAt is the foreign call of the traversal that throws (0: none).
RECURSIVE Walk(_, _, _, _, _)
Walk(chain, nextEntry, link, failAt, acc) ==
    IF link = 0 THEN acc
    ELSE LET handles == Append(acc.handles, link)
             calls == Append(acc.calls, Call(nextEntry, << link >>))
         IN IF Len(calls) = failAt
            THEN [ handles |-> handles, calls |-> calls, err |-> "MupdfError" ]
            ELSE Walk(chain, nextEntry, NextOf(chain, link), failAt,
                      [ handles |-> handles, calls |-> calls, err |-> "none" ])

TraverseSkipFirst(chain, firstEntry, nextEntry, ptr, failAt) ==
    LET c1 == << Call(firstEntry, << ptr >>) >>
    IN IF failAt = 1 \/ chain = << >>
       THEN [ handles |-> << >>, calls |-> c1,
              err |-> IF failAt = 1 THEN "MupdfError" ELSE "none" ]
       ELSE Walk(chain, nextEntry, NextOf(chain, FirstOf(chain)), failAt,
                 [ handles |-> << >>, calls |-> c1, err |-> "none" ])

\* for (let link = first(ptr); link !== 0; link = next(link)) push(link)
Traverse(chain, firstEntry, nextEntry, ptr, failAt) ==
    LET c1 == << Call(firstEntry, << ptr >>) >>
    IN IF failAt = 1
       THEN [ handles |-> << >>, calls |-> c1, err |-> "MupdfError" ]
       ELSE Walk(chain, nextEntry, FirstOf(chain), failAt,
                 [ handles |-> << >>, calls |-> c1, err |-> "none" ])

\* One traversal call on object o: every node visited is wrapped (and so
\* registered) as elemCls; on normal completion the wrappers are handed to
\* a new collCls, whose own pointer is links[0] || 0.  The elements are
\* reached through the collection.
Collect(o, op, ptr, collCls, elemCls, firstEntry, nextEntry, chain, failAt) ==
    /\ Live(o)
    /\ \A x \in {CollId} \cup ElemIds : objs[x].cls = "none"
    /\ failAt <= Len(chain) + 1
    /\ IF Lookup(libmupdf, firstEntry) = "undefined"
       THEN /\ failAt = 0
            /\ chain = << >>
            /\ lastOp' = OpRec(op, o, ptr, objs[o].frees > 0, << >>, "TypeError")
            /\ UNCHANGED <<objs, finalizer>>
       ELSE LET t == Traverse(chain, firstEntry, nextEntry, ptr, failAt)
                n == Len(t.handles)
                de == DropFunctionOf(libmupdf, elemCls)
                dc == DropFunctionOf(libmupdf, collCls)
                head == IF n = 0 THEN 0 ELSE t.handles[1]
                made == { CollId + k : k \in 1..n }
                         \cup (IF t.err = "none" THEN {CollId} ELSE {})
            IN
            /\ objs' = [ x \in ObjIds |->
                  IF x \in ElemIds /\ x \in made
                  THEN [ WrapperNew(elemCls, t.handles[x - CollId], de)
                           EXCEPT !.reachable = FALSE ]
                  ELSE IF x = CollId /\ x \in made
                  THEN [ WrapperNew(collCls, head, dc)
                           EXCEPT !.elems = [ k \in 1..n |-> CollId + k ] ]
                  ELSE objs[x] ]
            /\ finalizer' =
                 finalizer \cup
                   { [ target |-> x,
                       dropFunction |-> IF x = CollId THEN dc ELSE de,
                       pointer |-> IF x = CollId THEN head
                                   ELSE t.handles[x - CollId] ] : x \in made }
            /\ lastOp' = [ OpRec(op, o, ptr, objs[o].frees > 0, t.calls, t.err)
                             EXCEPT !.chain = chain, !.out = t.handles ]
    /\ UNCHANGED <<libmupdf, ready, heap, engine, walk>>

LoadLinks(o, chain, failAt) ==
    /\ objs[o].cls \in { "Page", "PdfPage" }
    /\ Collect(o, "loadLinks", objs[o].pointer, "Links", "Link",
               "_wasm_load_links", "_wasm_next_link", chain, failAt)

Annotations(o, chain, failAt) ==
    /\ objs[o].cls = "PdfPage"
    /\ Collect(o, "annotations", objs[o].pdfPagePointer, "Annotations",
               "Annotation", "_wasm_pdf_first_annot", "_wasm_pdf_next_annot",
               chain, failAt)

----------------------------------------------------------------------------
\* Page.search (lines 207-238)

\* The steps of the try block that can raise, in program order; the last
\* one stands for the decode of a hit inside the loop.
SearchSteps ==
    << "_wasm_size_of_quad", "_malloc_hits", "lengthBytesUTF8",
       "_malloc_needle", "stringToUTF8", "_wasm_search_page",
       "_wasm_rect_from_quad" >>

SearchFreesNeedleOnly(needle_ptr, hits_ptr) == << needle_ptr >>

\* What libmupdf._wasm_size_of_quad() returns: a quad is four points of
\* two 4-byte floats.
SizeOfQuad == 8 * 4

HitOffsetNext(hits_ptr, i) == hits_ptr + (i + 1) * SizeOfQuad

\* hits_ptr + i * libmupdf._wasm_size_of_quad() (line 227)
HitOffset(hits_ptr, i) == hits_ptr + i * SizeOfQuad

\* finally { _free(needle_ptr); _free(hits_ptr); }
SearchFrees(needle_ptr, hits_ptr) == << needle_ptr, hits_ptr >>

\* The try block.  a1 and a2 are what the two _malloc calls return, k the
\* hit count of the foreign search, failAt the step that raises (0: none).
\* hits_ptr and needle_ptr keep their initial 0 until their _malloc returns.
SearchTry(ptr, a1, a2, k, failAt) ==
    LET reached(i) == failAt = 0 \/ failAt >= i
        done(i) == failAt = 0 \/ failAt > i
        hits_ptr == IF done(2) THEN a1 ELSE 0
        needle_ptr == IF done(4) THEN a2 ELSE 0
        decodes == IF ~done(6) THEN << >>
                   ELSE IF failAt = 7
                   THEN << Call("_wasm_size_of_quad", << >>),
                           Call("_wasm_rect_from_quad",
                                << HitOffset(hits_ptr, 0) >>) >>
                   ELSE [ j \in 1..(2 * k) |->
                            IF j % 2 = 1 THEN Call("_wasm_size_of_quad", << >>)
                            ELSE Call("_wasm_rect_from_quad",
                                      << HitOffset(hits_ptr, (j \div 2) - 1) >>) ]
    IN [ hits_ptr |-> hits_ptr,
         needle_ptr |-> needle_ptr,
         mallocs |-> (IF done(2) THEN << a1 >> ELSE << >>)
                     \o (IF done(4) THEN << a2 >> ELSE << >>),
         calls |-> (IF reached(1) THEN << Call("_wasm_size_of_quad", << >>) >>
                    ELSE << >>)
                   \o (IF reached(2) THEN << Call("_malloc",
                                                  << SizeOfQuad * MAX_HIT_COUNT >>) >>
                       ELSE << >>)
                   \o (IF reached(4) THEN << Call("_malloc", << 1 >>) >>
                       ELSE << >>)
                   \o (IF reached(6)
                       THEN << Call("_wasm_search_page",
                                    << ptr, needle_ptr, hits_ptr, MAX_HIT_COUNT >>) >>
                       ELSE << >>)
                   \o decodes,
         rects |-> IF failAt = 0
                   THEN [ i \in 1..k |-> HitOffset(hits_ptr, i - 1) ]
                   ELSE << >>,
         err |-> IF failAt = 0 THEN "none" ELSE "MupdfError" ]

Search(o, a1, a2, k, failAt) ==
    /\ Live(o)
    /\ objs[o].cls \in { "Page", "PdfPage" }
    /\ a1 \in {0} \cup (Offsets \ heap)
    /\ a2 \in {0} \cup (Offsets \ (heap \cup {a1}))
    /\ failAt = 7 => k > 0
    /\ IF libmupdf # "module"
       THEN /\ a1 = 0 /\ a2 = 0 /\ k = 0 /\ failAt = 0
            /\ lastOp' = OpRec("search", o, objs[o].pointer, objs[o].frees > 0,
                               << >>, "TypeError")
            /\ heap' = heap
       ELSE LET t == SearchTry(objs[o].pointer, a1, a2, k, failAt)
                frees == SearchFrees(t.needle_ptr, t.hits_ptr)
            IN
            /\ heap' = (heap \cup (Range(t.mallocs) \ {0})) \ Range(frees)
            /\ lastOp' =
                 [ OpRec("search", o, objs[o].pointer, objs[o].frees > 0,
                         t.calls \o [ i \in DOMAIN frees |->
                                        Call("_free", << frees[i] >>) ],
                         t.err)
                     EXCEPT !.mallocs = t.mallocs, !.frees = frees,
                            !.out = t.rects,
                            !.rets = IF failAt = 0 \/ failAt = 7
                                     THEN << k >> ELSE << >> ]
    /\ UNCHANGED <<libmupdf, ready, objs, finalizer, engine, walk>>

----------------------------------------------------------------------------
Next ==
    \/ \E fail \in BootFailures : Ready(fail)
    \/ \E cls \in HandleClasses, throws \in BOOLEAN : Construct(cls, throws)
    \/ \E o \in ObjIds, throws \in BOOLEAN : Free(o, throws)
    \/ \E o \in ObjIds : Release(o)
    \/ \E o \in ObjIds, throws \in BOOLEAN : Finalize(o, throws)
    \/ \E o \in ObjIds, m \in AllMethods, throws \in BOOLEAN :
          Method(o, m, throws)

Spec == Init /\ [][Next]_vars

\* One page and what its traversals return.
NextTraverse ==
    \/ Ready("none")
    \/ \E cls \in { "Page", "PdfPage" } :
          FreeSlots = UserIds /\ Construct(cls, FALSE)
    \/ \E o \in UserIds, c \in Chains, failAt \in 0..(MaxChain + 1) :
          LoadLinks(o, c, failAt)
    \/ \E o \in UserIds, c \in Chains, failAt \in 0..(MaxChain + 1) :
          Annotations(o, c, failAt)
    \/ \E o \in UserIds, throws \in BOOLEAN : Free(o, throws)
    \/ \E o \in ObjIds : Release(o)
    \/ \E o \in ObjIds, throws \in BOOLEAN : Finalize(o, throws)

SpecTraverse == Init /\ [][NextTraverse]_vars

\* One object of any class, the collections a page's traversals return,
\* and the disposal of all of them by free() and by the collector.
NextGC ==
    \/ Ready("none")
    \/ \E cls \in HandleClasses, throws \in BOOLEAN :
          FreeSlots = UserIds /\ Construct(cls, throws)
    \/ \E o \in UserIds, c \in Chains : LoadLinks(o, c, 0)
    \/ \E o \in UserIds, c \in Chains : Annotations(o, c, 0)
    \/ \E o \in ObjIds \ DeviceIds, throws \in BOOLEAN : Free(o, throws)
    \/ \E o \in ObjIds : Release(o)
    \/ \E o \in ObjIds, throws \in BOOLEAN : Finalize(o, throws)

SpecGC == Init /\ [][NextGC]_vars

\* One page and the searches on it.
NextSearch ==
    \/ Ready("none")
    \/ \E cls \in { "Page", "PdfPage" } :
          FreeSlots = UserIds /\ Construct(cls, FALSE)
    \/ \E o \in UserIds, throws \in BOOLEAN : Free(o, throws)
    \/ \E o \in UserIds, a1, a2 \in 0..MaxOffset, k \in 0..MaxHits,
          failAt \in 0..Len(SearchSteps) : Search(o, a1, a2, k, failAt)

SpecSearch == Init /\ [][NextSearch]_vars

\* The hit counts the foreign search reports: the small ones and the
\* maximum it was given.
HitCounts == (0..MaxHits) \cup { MAX_HIT_COUNT }

\* One page and the searches on it whose scratch array and needle were
\* allocated (the needle at the lowest offset the scratch array left), for
\* every hit count.
NextHits ==
    \/ Ready("none")
    \/ \E cls \in { "Page", "PdfPage" } :
          FreeSlots = UserIds /\ Construct(cls, FALSE)
    \/ \E o \in UserIds, throws \in BOOLEAN : Free(o, throws)
    \/ \E o \in UserIds, a1 \in Offsets, k \in HitCounts,
          failAt \in 0..Len(SearchSteps) :
          Search(o, a1, IF a1 = 1 THEN 2 ELSE 1, k, failAt)

SpecHits == Init /\ [][NextHits]_vars

----------------------------------------------------------------------------
\* Document (lines 112-159)

\* Document.openFromData(data, magic) (lines 118-133), with n =
\* data.byteLength.  The body calls super(...) in a static method, where a
\* SuperCall is an early error of the language, and it has no return
\* statement: no run of it allocates, calls the engine or yields a
\* Document.  (The model keeps the other operations of the file usable, as
\* if this method alone were rejected.)
OpenFromData(n, magic) ==
    /\ lastOp' = [ OpRec("openFromData", 0, 0, FALSE, << >>, "SyntaxError")
                     EXCEPT !.args = << n, magic >> ]
    /\ UNCHANGED <<libmupdf, ready, objs, finalizer, heap, engine, walk>>

PageIndexSame(pageNumber) == pageNumber

\* pageNumber - 1 (line 141)
PageIndex(pageNumber) == pageNumber - 1

\* loadPage(pageNumber) (lines 139-149).  The engine returns the fresh page
\* handle and, seen as a PDF page, that same object or 0 (pdf); failAt 1
\* and 2 make the first and the second foreign call report a failure.  The
\* page returned takes the slot CollId.
LoadPage(o, pageNumber, pdf, failAt) ==
    /\ Live(o)
    /\ objs[o].cls = "Document"
    /\ objs[CollId].cls = "none"
    /\ LET load == Lookup(libmupdf, "_wasm_load_page")
           page_ptr == CollId
           pdfPage_ptr == IF pdf THEN page_ptr ELSE 0
           cls == IF pdfPage_ptr # 0 THEN "PdfPage" ELSE "Page"
           d == DropFunctionOf(libmupdf, cls)
           c1 == Call("_wasm_load_page",
                      << objs[o].pointer, PageIndex(pageNumber) >>)
           c2 == Call("_wasm_pdf_page_from_fz_page", << page_ptr >>)
           rec == OpRec("loadPage", o, objs[o].pointer, objs[o].frees > 0,
                        << >>, "none")
       IN
       IF load = "undefined"
       THEN /\ failAt = 0
            /\ ~pdf
            /\ lastOp' = [ rec EXCEPT !.err = "TypeError",
                                      !.args = << pageNumber >> ]
            /\ UNCHANGED <<objs, finalizer>>
       ELSE IF failAt # 0
       THEN /\ ~pdf
            /\ lastOp' = [ rec EXCEPT
                             !.calls = IF failAt = 1 THEN << c1 >>
                                       ELSE << c1, c2 >>,
                             !.err = "MupdfError",
                             !.args = << pageNumber >>,
                             !.rets = IF failAt = 1 THEN << >>
                                      ELSE << page_ptr >> ]
            /\ UNCHANGED <<objs, finalizer>>
       ELSE /\ objs' = [ objs EXCEPT
                           ![CollId] = [ WrapperNew(cls, page_ptr, d) EXCEPT
                                           !.pdfPagePointer = pdfPage_ptr ] ]
            /\ finalizer' = Register(finalizer, CollId, d, page_ptr)
            /\ lastOp' = [ rec EXCEPT
                             !.calls = << c1, c2 >>,
                             !.args = << pageNumber >>,
                             !.rets = << page_ptr, pdfPage_ptr >>,
                             !.out = << CollId >> ]
    /\ UNCHANGED <<libmupdf, ready, heap, engine, walk>>

\* One document: opening from data, loading its pages, and the lifecycle of
\* the document and of the page loaded.
NextDoc ==
    \/ Ready("none")
    \/ FreeSlots = UserIds /\ Construct("Document", FALSE)
    \/ \E n \in 0..1, magic \in { "application/pdf" } : OpenFromData(n, magic)
    \/ \E o \in UserIds, pageNumber \in 1..MaxPages, pdf \in BOOLEAN,
          failAt \in 0..2 : LoadPage(o, pageNumber, pdf, failAt)
    \/ \E o \in UserIds \cup {CollId}, throws \in BOOLEAN : Free(o, throws)
    \/ \E o \in UserIds \cup {CollId} : Release(o)
    \/ \E o \in UserIds \cup {CollId}, throws \in BOOLEAN : Finalize(o, throws)

SpecDoc == Init /\ [][NextDoc]_vars

----------------------------------------------------------------------------
\* Pixmap (lines 363-393)

\* Host numbers: a number, or NaN; a method that is not called is a
\* function value.
Num(x) == [ t |-> "number", v |-> x ]
NaN == [ t |-> "NaN", v |-> 0 ]
Fn == [ t |-> "function", v |-> 0 ]

\* a * b and a + b on host values: a function operand converts to NaN, and
\* NaN is absorbing.
Mul(a, b) == IF a.t = "number" /\ b.t = "number" THEN Num(a.v * b.v) ELSE NaN
Add(a, b) == IF a.t = "number" /\ b.t = "number" THEN Num(a.v + b.v) ELSE NaN

\* HEAPU8.subarray(begin, end) for begin >= 0 inside the memory: the end
\* index is converted to an integer (NaN gives 0) and the view is empty
\* when it does not exceed begin.  The view is <<byte offset, length>>.
Subarray(begin, end) ==
    LET e == IF end.t = "number" THEN end.v ELSE 0 IN
    << begin.v, IF e > begin.v THEN e - begin.v ELSE 0 >>

\* samples() (lines 377-382) on a pixmap whose engine-side stride, height
\* and samples offset are stride, height and p.  height is what
\* this.height() would return; the body multiplies by this.height, the
\* method itself.  failAt 1 and 2 fail the first and second foreign call.
Samples(o, stride, height, p, failAt) ==
    /\ Live(o)
    /\ objs[o].cls = "Pixmap"
    /\ LET c1 == Call("_wasm_pixmap_stride", << objs[o].pointer >>)
           c2 == Call("_wasm_pixmap_samples", << objs[o].pointer >>)
           n == Mul(Num(stride), Fn)
           rec == [ OpRec("samples", o, objs[o].pointer, objs[o].frees > 0,
                          << >>, "none")
                      EXCEPT !.rets = << stride, height, p >> ]
       IN
       lastOp' =
         IF Lookup(libmupdf, "_wasm_pixmap_stride") = "undefined"
         THEN [ rec EXCEPT !.err = "TypeError" ]
         ELSE IF failAt = 1
         THEN [ rec EXCEPT !.calls = << c1 >>, !.err = "MupdfError" ]
         ELSE IF failAt = 2
         THEN [ rec EXCEPT !.calls = << c1, c2 >>, !.err = "MupdfError" ]
         ELSE [ rec EXCEPT !.calls = << c1, c2 >>,
                           !.out = Subarray(Num(p), Add(Num(p), n)) ]
    /\ UNCHANGED <<libmupdf, ready, objs, finalizer, heap, engine, walk>>

\* The handle of the temporary buffer the PNG encoder returns.
TempBuf == CollId + MaxChain + 1

PngReleaseOnReturn(buf, failed) ==
    IF failed THEN << >> ELSE << Call("_wasm_drop_buffer", << buf >>) >>

\* finally { libmupdf._wasm_drop_buffer(buf) } (lines 389-391): runs on
\* the normal and on the failing exit of the try block.
PngFinally(buf, failed) == << Call("_wasm_drop_buffer", << buf >>) >>

\* toPNG() (lines 383-392).  The encoder returns a buffer of size bytes at
\* offset data; failAt = 1 fails the encoder, 2 and 3 the reads of the data
\* offset and of the size, 4 the copy HEAPU8.slice, which is recorded among
\* the calls to fix its place in the order.  The release entry point itself
\* is taken to complete.
ToPNG(o, data, size, failAt) ==
    /\ Live(o)
    /\ objs[o].cls = "Pixmap"
    /\ LET buf == TempBuf
           c1 == Call("_wasm_new_buffer_from_pixmap_as_png",
                      << objs[o].pointer >>)
           tried == << Call("_wasm_buffer_data", << buf >>),
                       Call("_wasm_buffer_size", << buf >>),
                       Call("HEAPU8.slice", << data, data + size >>) >>
           inTry == IF failAt = 0 THEN tried ELSE SubSeq(tried, 1, failAt - 1)
           rec == OpRec("toPNG", o, objs[o].pointer, objs[o].frees > 0,
                        << >>, "none")
           undef == Lookup(libmupdf, "_wasm_new_buffer_from_pixmap_as_png")
                      = "undefined"
           calls == IF undef THEN << >>
                    ELSE IF failAt = 1 THEN << c1 >>
                    ELSE << c1 >> \o inTry \o PngFinally(buf, failAt # 0)
           released == \E i \in DOMAIN calls :
                          calls[i] = Call("_wasm_drop_buffer", << buf >>)
       IN
       /\ lastOp' =
            [ rec EXCEPT
                !.calls = calls,
                !.err = IF undef THEN "TypeError"
                        ELSE IF failAt # 0 THEN "MupdfError" ELSE "none",
                !.rets = IF undef \/ failAt = 1 THEN << >>
                         ELSE << buf, data, size >>,
                !.out = IF ~undef /\ failAt = 0 THEN << data, data + size >>
                        ELSE << >> ]
       /\ bufs' = IF undef \/ failAt = 1 \/ released THEN bufs
                  ELSE bufs \cup { [ h |-> buf, data |-> data, size |-> size ] }
    /\ UNCHANGED <<libmupdf, ready, objs, finalizer, heap,
                   HEAP32, HEAPU8, outline, walk>>

\* One pixmap: its construction, samples(), toPNG() and its lifecycle.
NextPixmap ==
    \/ Ready("none")
    \/ \E throws \in BOOLEAN :
          FreeSlots = UserIds /\ Construct("Pixmap", throws)
    \/ \E o \in UserIds, stride \in 1..MaxSize, height \in 0..MaxSize,
          p \in Offsets, failAt \in 0..2 : Samples(o, stride, height, p, failAt)
    \/ \E o \in UserIds, data \in Offsets, size \in 0..MaxSize,
          failAt \in 0..4 : ToPNG(o, data, size, failAt)
    \/ \E o \in UserIds, throws \in BOOLEAN : Free(o, throws)
    \/ \E o \in UserIds : Release(o)
    \/ \E o \in UserIds, throws \in BOOLEAN : Finalize(o, throws)

SpecPixmap == Init /\ [][NextPixmap]_vars

----------------------------------------------------------------------------
\* Struct decoders (lines 44-74)

WordIndexOfByte(ptr) == ptr

\* ptr >> 2: the arithmetic shift of the operand taken as a signed 32-bit
\* integer, which is the floor of ptr / 4.  (Every offset of the modelled
\* memory is below 2^31, where the conversion changes nothing.)
WordIndex(ptr) == ptr \div 4

\* A typed-array read: the word stored at index i, or undefined (-1) when
\* the index lies outside the memory.
ReadWord(i) == IF i \in Words THEN HEAP32[i] ELSE -1

\* The byte offsets the decoders are applied to: the word-aligned offsets
\* of the memory and the offsets two bytes past them.
Addrs == { 4 * w + r : w \in Words, r \in { 0, 2 } }

\* _to_rect, _to_irect and _to_matrix (lines 44-74) read count words
\* through the given view, starting at ptr >> 2, and write nothing.  The
\* reads are recorded in order; the array returned is out.  Before
\* libmupdf is the module it has no HEAPF32 / HEAP32 property.
Decode(op, view, count, ptr) ==
    /\ LET idx == WordIndex(ptr)
           rec == OpRec(op, 0, ptr, FALSE, << >>, "none")
       IN
       lastOp' =
         IF Lookup(libmupdf, view) = "undefined"
         THEN [ rec EXCEPT !.err = "TypeError" ]
         ELSE [ rec EXCEPT
                  !.calls = [ i \in 1..count |-> Call(view, << idx + i - 1 >>) ],
                  !.out = [ i \in 1..count |-> ReadWord(idx + i - 1) ] ]
    /\ UNCHANGED <<libmupdf, ready, objs, finalizer, heap, engine, walk>>

ToRect(ptr) == Decode("_to_rect", "HEAPF32", 4, ptr)
ToIRect(ptr) == Decode("_to_irect", "HEAP32", 4, ptr)
ToMatrix(ptr) == Decode("_to_matrix", "HEAPF32", 6, ptr)

\* The decoders over every content of the memory.
InitDecode ==
    /\ InitHost
    /\ HEAP32 \in [ Words -> WordValues ]

NextDecode ==
    \/ Ready("none")
    \/ \E ptr \in Addrs : ToRect(ptr)
    \/ \E ptr \in Addrs : ToIRect(ptr)
    \/ \E ptr \in Addrs : ToMatrix(ptr)

SpecDecode == InitDecode /\ [][NextDecode]_vars

----------------------------------------------------------------------------
\* Buffer strings (lines 412-417, 449-454) and the runtime's text codec

\* Host strings are sequences of Unicode scalar values (well-formed
\* strings).  The characters used: NUL, a 1-, a 2-, a 3- and a 4-byte one.
Chars == { 0, 65, 233, 8364, 128512 }

RECURSIVE StringsUpTo(_)
StringsUpTo(n) ==
    IF n = 0 THEN { << >> }
    ELSE StringsUpTo(n - 1) \cup
           { Append(s, c) : s \in { t \in StringsUpTo(n - 1) : Len(t) = n - 1 },
                            c \in Chars }

Strings == StringsUpTo(MaxLen)

\* The UTF-8 bytes of one scalar value.
EncodeChar(c) ==
    IF c < 128 THEN << c >>
    ELSE IF c < 2048 THEN << 192 + (c \div 64), 128 + (c % 64) >>
    ELSE IF c < 65536
    THEN << 224 + (c \div 4096), 128 + ((c \div 64) % 64), 128 + (c % 64) >>
    ELSE << 240 + (c \div 262144), 128 + ((c \div 4096) % 64),
            128 + ((c \div 64) % 64), 128 + (c % 64) >>

\* libmupdf.lengthBytesUTF8(string): the bytes of the encoding, without a
\* terminator.
RECURSIVE lengthBytesUTF8(_)
lengthBytesUTF8(s) ==
    IF s = << >> THEN 0
    ELSE Len(EncodeChar(Head(s))) + lengthBytesUTF8(Tail(s))

\* The characters of s, in order, as long as their bytes fit in room.
RECURSIVE EncodeWithin(_, _)
EncodeWithin(s, room) ==
    IF s = << >> \/ Len(EncodeChar(Head(s))) > room THEN << >>
    ELSE EncodeChar(Head(s))
           \o EncodeWithin(Tail(s), room - Len(EncodeChar(Head(s))))

\* libmupdf.stringToUTF8(string, ptr, maxBytesToWrite): the bytes stored at
\* ptr, at most maxBytesToWrite of them, the last one a terminating 0;
\* nothing is stored when maxBytesToWrite is 0.
stringToUTF8(s, maxBytesToWrite) ==
    IF maxBytesToWrite <= 0 THEN << >>
    ELSE Append(EncodeWithin(s, maxBytesToWrite - 1), 0)

\* The bytes before the first 0 among the first max bytes of b.
RECURSIVE UpToNul(_, _)
UpToNul(b, max) ==
    IF b = << >> \/ max = 0 \/ Head(b) = 0 THEN << >>
    ELSE << Head(b) >> \o UpToNul(Tail(b), max - 1)

\* UTF-8 decoding of a byte sequence; a malformed sequence gives U+FFFD.
RECURSIVE DecodeBytes(_)
DecodeBytes(b) ==
    IF b = << >> THEN << >>
    ELSE LET b1 == b[1]
             n == IF b1 < 128 THEN 1 ELSE IF b1 < 192 THEN 0
                  ELSE IF b1 < 224 THEN 2 ELSE IF b1 < 240 THEN 3 ELSE 4
             cont(i) == b[i] - 128
         IN
         IF n = 0 \/ Len(b) < n
              \/ \E i \in 2..n : b[i] < 128 \/ b[i] >= 192
         THEN << 65533 >> \o DecodeBytes(Tail(b))
         ELSE << CASE n = 1 -> b1
                   [] n = 2 -> (b1 - 192) * 64 + cont(2)
                   [] n = 3 -> (b1 - 224) * 4096 + cont(2) * 64 + cont(3)
                   [] n = 4 -> (b1 - 240) * 262144 + cont(2) * 4096
                                 + cont(3) * 64 + cont(4) >>
              \o DecodeBytes(SubSeq(b, n + 1, Len(b)))

\* libmupdf.UTF8ToString(ptr, maxBytesToRead) over the bytes stored at ptr:
\* decoding stops at the first 0 byte or after maxBytesToRead bytes.
UTF8ToString(b, maxBytesToRead) == DecodeBytes(UpToNul(b, maxBytesToRead))

StringSizeNoTerminator(n) == n

\* libmupdf.lengthBytesUTF8(string) + 1 (line 413)
StringSize(n) == n + 1

\* Buffer.fromJsString(string) (lines 412-417).  a is the offset _malloc
\* returns; the engine buffer made around it takes the handle of the slot
\* of the new Buffer; fail makes _wasm_new_buffer_from_data report a
\* failure, after the string was stored.
FromJsString(string, a, fail) ==
    /\ FreeSlots # {}
    /\ a \in Offsets \ heap
    /\ LET o == NextSlot
           d == DropFunctionOf(libmupdf, "Buffer")
           string_size == StringSize(lengthBytesUTF8(string))
           rec == [ OpRec("fromJsString", 0, 0, FALSE, << >>, "none")
                      EXCEPT !.args = << string >> ]
           c1 == Call("_malloc", << string_size >>)
           c2 == Call("_wasm_new_buffer_from_data", << a, string_size >>)
       IN
       IF Lookup(libmupdf, "lengthBytesUTF8") = "undefined"
       THEN /\ ~fail
            /\ lastOp' = [ rec EXCEPT !.err = "TypeError" ]
            /\ UNCHANGED <<objs, finalizer, heap, HEAPU8, bufs>>
       ELSE /\ heap' = heap \cup {a}
            /\ HEAPU8' = [ HEAPU8 EXCEPT ![a] = stringToUTF8(string, string_size) ]
            /\ IF fail
               THEN /\ lastOp' = [ rec EXCEPT !.calls = << c1, c2 >>,
                                              !.mallocs = << a >>,
                                              !.err = "MupdfError" ]
                    /\ UNCHANGED <<objs, finalizer, bufs>>
               ELSE /\ bufs' = bufs \cup
                                 { [ h |-> o, data |-> a, size |-> string_size ] }
                    /\ objs' = [ objs EXCEPT ![o] = WrapperNew("Buffer", o, d) ]
                    /\ finalizer' = Register(finalizer, o, d, o)
                    /\ lastOp' = [ rec EXCEPT !.calls = << c1, c2 >>,
                                              !.mallocs = << a >>,
                                              !.rets = << o >>,
                                              !.out = << o >> ]
    /\ UNCHANGED <<libmupdf, ready, HEAP32, outline, walk>>

\* toJsString() (lines 449-454).  The engine reports the data offset and
\* the size of the buffer behind this.pointer; a handle that is no live
\* buffer (0 after free()) makes the first foreign call fail, as does fail.
ToJsString(o, fail) ==
    /\ Live(o)
    /\ objs[o].cls = "Buffer"
    /\ LET ptr == objs[o].pointer
           known == { b \in bufs : b.h = ptr }
           rec == OpRec("toJsString", o, ptr, objs[o].frees > 0, << >>, "none")
           c1 == Call("_wasm_buffer_data", << ptr >>)
           c2 == Call("_wasm_buffer_size", << ptr >>)
       IN
       lastOp' =
         IF Lookup(libmupdf, "_wasm_buffer_data") = "undefined"
         THEN [ rec EXCEPT !.err = "TypeError" ]
         ELSE IF fail \/ known = {}
         THEN [ rec EXCEPT !.calls = << c1 >>, !.err = "MupdfError" ]
         ELSE LET b == CHOOSE x \in known : TRUE IN
              [ rec EXCEPT !.calls = << c1, c2 >>,
                           !.rets = << b.data, b.size >>,
                           !.out = UTF8ToString(HEAPU8[b.data], b.size) ]
    /\ UNCHANGED <<libmupdf, ready, objs, finalizer, heap, engine, walk>>

\* One string marshalled into a buffer, read back, and the lifecycle of
\* the buffer.
NextString ==
    \/ Ready("none")
    \/ \E string \in Strings, a \in Offsets, fail \in BOOLEAN :
          heap = {} /\ FromJsString(string, a, fail)
    \/ \E o \in UserIds, fail \in BOOLEAN : ToJsString(o, fail)
    \/ \E o \in UserIds, throws \in BOOLEAN : Free(o, throws)
    \/ \E o \in UserIds : Release(o)
    \/ \E o \in UserIds, throws \in BOOLEAN : Finalize(o, throws)

SpecString == Init /\ [][NextString]_vars

----------------------------------------------------------------------------
\* Outline (lines 156-158, 304-333)

\* The slots the Outline objects of one walk take.
OutlineSlots == {CollId} \cup ElemIds

\* The outline trees the engine may build, in first-child / next-sibling
\* form: nodes 1..n (the handle of node i is i, the root is node 1), down
\* and next give the first child and the next sibling of a node or 0, a
\* link leads to a node of a higher number (so the structure is acyclic),
\* and every node but the root is the target of exactly one link.
LinkMaps(n) ==
    { f \in [ 1..n -> 0..n ] : \A i \in 1..n : f[i] = 0 \/ f[i] > i }

TreesOf(n) ==
    { [ n |-> n, down |-> d, next |-> x ] : d \in LinkMaps(n), x \in LinkMaps(n) }

Trees ==
    { t \in UNION { TreesOf(n) : n \in 0..Cardinality(OutlineSlots) } :
        \A j \in 2..t.n :
           Cardinality({ i \in 1..t.n : t.down[i] = j })
             + Cardinality({ i \in 1..t.n : t.next[i] = j }) = 1 }

new_outline_null(pointer) == FALSE

\* new_outline(pointer) (lines 304-309): whether an Outline is made; null
\* is returned for the zero handle.
new_outline(pointer) == pointer # 0

\* The frame a walk pushes for the Outline in slot s: its children are
\* asked for first.
Frame(s) == [ obj |-> s, pc |-> "down" ]

\* What one accessor call does to the walk and to the objects: the handle
\* ret it obtained is wrapped by new_outline, and the walk goes on with the
\* frames rest and, when an Outline was made, a frame for it on top.  A
\* call that raises ends the walk.
Wrapped(op, o, ptr, entry, ret, rest, fail) ==
    LET s == CHOOSE x \in OutlineSlots :
                 /\ objs[x].cls = "none"
                 /\ \A y \in OutlineSlots : objs[y].cls = "none" => x <= y
        d == DropFunctionOf(libmupdf, "Outline")
        rec == OpRec(op, o, ptr, objs[o].frees > 0,
                     << Call(entry, << ptr >>) >>, "none")
    IN
    IF Lookup(libmupdf, entry) = "undefined"
    THEN /\ ~fail
         /\ lastOp' = [ rec EXCEPT !.calls = << >>, !.err = "TypeError" ]
         /\ walk' = [ walk EXCEPT !.phase = "failed" ]
         /\ UNCHANGED <<objs, finalizer>>
    ELSE IF fail
    THEN /\ lastOp' = [ rec EXCEPT !.err = "MupdfError" ]
         /\ walk' = [ walk EXCEPT !.phase = "failed" ]
         /\ UNCHANGED <<objs, finalizer>>
    ELSE IF new_outline(ret)
    THEN /\ \E x \in OutlineSlots : objs[x].cls = "none"
         /\ objs' = [ objs EXCEPT ![s] = WrapperNew("Outline", ret, d) ]
         /\ finalizer' = Register(finalizer, s, d, ret)
         /\ lastOp' = [ rec EXCEPT !.rets = << ret >>, !.out = << s >> ]
         /\ walk' = [ phase |-> "walking",
                      todo |-> Append(rest, Frame(s)),
                      visited |-> Append(walk.visited, ret) ]
    ELSE /\ lastOp' = [ rec EXCEPT !.rets = << ret >> ]
         /\ walk' = [ phase |-> IF rest = << >> THEN "done" ELSE "walking",
                      todo |-> rest,
                      visited |-> walk.visited ]
         /\ UNCHANGED <<objs, finalizer>>

\* loadOutline() (lines 156-158): the engine builds the outline tree of
\* the document and returns its root, or 0 for an empty outline.  The walk
\* starts here.
LoadOutline(o, tree, fail) ==
    /\ Live(o)
    /\ objs[o].cls = "Document"
    /\ walk.phase = "idle"
    /\ fail \/ libmupdf # "module" => tree = NoOutline
    /\ outline' = tree
    /\ Wrapped("loadOutline", o, objs[o].pointer, "_wasm_load_outline",
               IF tree.n = 0 THEN 0 ELSE 1, << >>, fail)
    /\ UNCHANGED <<libmupdf, ready, heap, HEAP32, HEAPU8, bufs>>

\* down() (lines 326-328) on the Outline the walk is at, which then waits
\* for its next().
Down(o, fail) ==
    /\ walk.phase = "walking"
    /\ walk.todo # << >>
    /\ walk.todo[Len(walk.todo)] = [ obj |-> o, pc |-> "down" ]
    /\ Live(o)
    /\ objs[o].pointer \in 1..outline.n
    /\ Wrapped("down", o, objs[o].pointer, "_wasm_outline_down",
               outline.down[objs[o].pointer],
               [ walk.todo EXCEPT ![Len(walk.todo)].pc = "next" ], fail)
    /\ UNCHANGED <<libmupdf, ready, heap, engine>>

\* next() (lines 330-332) on the Outline the walk is at, which is then
\* done with.
NextSibling(o, fail) ==
    /\ walk.phase = "walking"
    /\ walk.todo # << >>
    /\ walk.todo[Len(walk.todo)] = [ obj |-> o, pc |-> "next" ]
    /\ Live(o)
    /\ objs[o].pointer \in 1..outline.n
    /\ Wrapped("next", o, objs[o].pointer, "_wasm_outline_next",
               outline.next[objs[o].pointer],
               SubSeq(walk.todo, 1, Len(walk.todo) - 1), fail)
    /\ UNCHANGED <<libmupdf, ready, heap, engine>>

\* The next accessor call of the walk, the engine not failing.
WalkStep == \E o \in OutlineSlots : Down(o, FALSE) \/ NextSibling(o, FALSE)

\* One document and one walk over its outline.
NextOutline ==
    \/ Ready("none")
    \/ FreeSlots = UserIds /\ Construct("Document", FALSE)
    \/ \E o \in UserIds, tree \in Trees, fail \in BOOLEAN :
          LoadOutline(o, tree, fail)
    \/ \E o \in OutlineSlots, fail \in BOOLEAN : Down(o, fail)
    \/ \E o \in OutlineSlots, fail \in BOOLEAN : NextSibling(o, fail)

SpecOutline == Init /\ [][NextOutline]_vars

----------------------------------------------------------------------------
\* Properties

Calls(fn) == { i \in DOMAIN lastOp.calls : lastOp.calls[i].fn = fn }

\* C1: over any sequence of free() calls and any collector finalization,
\* the release routine bound to a resource is executed at most once
\* (stated for the executions whose bootstrap succeeded).
C1_ReleaseAtMostOnce ==
    ready = "resolved" => \A o \in ObjIds : objs[o].dropRuns <= 1

\* C2: once free() has been called on a resource its collector callback
\* never runs: free() cancels the registration before it invokes the
\* release routine (so also when that routine raises), and no resource is
\* released both explicitly and by collection.
C2_NoCallbackAfterFree ==
    /\ lastOp.op = "finalize" => ~lastOp.freed
    /\ \A c \in finalizer : objs[c.target].frees = 0
    /\ \A o \in ObjIds :
         objs[o].frees > 0 /\ objs[o].dropFunction \in DropEntries
           => objs[o].dropRuns = objs[o].frees

\* A freed resource with a foreign release routine that the host no longer
\* reaches: the state in which a registration left behind would fire.
C2_Witness ==
    \E o \in UserIds :
        /\ objs[o].frees > 0
        /\ objs[o].dropFunction \in DropEntries
        /\ ~Reachable(o)
        /\ lastOp.op = "release"

\* C3: a second free() on an already freed resource is detected as an
\* error and does not invoke the release routine again (stated for the
\* executions whose bootstrap succeeded).
C3_SecondFreeDetected ==
    ready = "resolved" /\ lastOp.op = "free" /\ lastOp.freed
      => lastOp.err # "none" /\ lastOp.calls = << >>

\* C4: after free(), a facade operation on the resource reports an error
\* instead of forwarding the zeroed handle to a foreign entry point and
\* returning its result (stated for the executions whose bootstrap
\* succeeded).
C4_UseAfterFreeDetected ==
    ready = "resolved" /\ lastOp.op \in AllMethods
      /\ lastOp.freed /\ lastOp.ptr = 0
      => lastOp.err # "none" /\ lastOp.calls = << >>

WeakClasses == { "Link", "Annotation", "Outline", "Links", "Annotations" }

\* C5: free() on, or collector finalization of, a Link, an Annotation, an
\* Outline or a Links / Annotations collection invokes no foreign entry
\* point: no drop is issued for any node of the chain.
C5_WeakNeverDropped ==
    lastOp.op \in { "free", "finalize" }
      /\ objs[lastOp.obj].cls \in WeakClasses
      => lastOp.calls = << >>

\* An element was freed, and the collection that held it was collected.
C5_Witness ==
    /\ lastOp.op = "finalize"
    /\ objs[lastOp.obj].cls \in { "Links", "Annotations" }
    /\ \E e \in ElemIds : objs[e].cls # "none" /\ objs[e].frees > 0

\* C6: on a chain of N nodes, loadLinks / annotations returns a collection
\* of exactly N elements wrapping the chain's handles in chain order,
\* after one call of the first accessor and N calls of the next accessor,
\* one on each node in turn (none when N = 0).
C6_TraversalExact ==
    lastOp.op \in { "loadLinks", "annotations" } /\ lastOp.err = "none"
      => LET n == Len(lastOp.chain)
             links == lastOp.op = "loadLinks"
             coll == objs[CollId]
         IN
         /\ lastOp.out = lastOp.chain
         /\ coll.cls = IF links THEN "Links" ELSE "Annotations"
         /\ Len(coll.elems) = n
         /\ \A k \in 1..n :
              /\ objs[coll.elems[k]].cls = IF links THEN "Link" ELSE "Annotation"
              /\ objs[coll.elems[k]].pointer = lastOp.chain[k]
         /\ Len(lastOp.calls) = n + 1
         /\ lastOp.calls[1] =
              Call(IF links THEN "_wasm_load_links" ELSE "_wasm_pdf_first_annot",
                   << lastOp.ptr >>)
         /\ \A k \in 1..n :
              lastOp.calls[k + 1] =
                Call(IF links THEN "_wasm_next_link" ELSE "_wasm_pdf_next_annot",
                     << lastOp.chain[k] >>)

\* A completed traversal of a two-node chain whose handles are not in
\* increasing order.
C6_Witness ==
    /\ lastOp.op = "annotations"
    /\ lastOp.err = "none"
    /\ Len(lastOp.chain) = 2
    /\ lastOp.chain[1] > lastOp.chain[2]
    /\ Len(objs[CollId].elems) = 2

\* C7: on every exit of search, each scratch allocation it obtained has
\* been freed exactly once and is no longer allocated.
C7_SearchFreesScratch ==
    lastOp.op = "search"
      => \A a \in Range(lastOp.mallocs) \ {0} :
           /\ Cardinality({ i \in DOMAIN lastOp.frees : lastOp.frees[i] = a }) = 1
           /\ a \notin heap

\* A search that obtained both allocations and then failed.
C7_Witness ==
    /\ lastOp.op = "search"
    /\ lastOp.err = "MupdfError"
    /\ Cardinality(Range(lastOp.mallocs) \ {0}) = 2
    /\ Calls("_wasm_search_page") # {}

\* C8: no operation other than the bootstrap itself invokes a foreign
\* entry point unless mupdf.ready has resolved.
C8_NoForeignCallBeforeReady ==
    lastOp.op \notin { "load", "ready" } /\ lastOp.calls # << >>
      => ready = "resolved"

\* C9: once readiness has created the four device colour spaces, the
\* foreign drop-colorspace entry point is never invoked on the handle of
\* one of them.
C9_SingletonsNeverReleased ==
    ready = "resolved"
      => \A i \in Calls("_wasm_drop_colorspace") :
           lastOp.calls[i].args[1] \notin { DeviceHandle(d) : d \in DeviceIds }

ScarceDrop(cls) ==
    CASE cls = "Pixmap" -> "_wasm_drop_pixmap"
      [] cls = "Buffer" -> "_wasm_drop_buffer"
      [] cls = "Document" -> "_wasm_drop_document"

\* C10: free() on a Pixmap, Buffer or Document with a live handle h (one
\* bound once the module is instantiated) invokes the foreign drop entry
\* point of its type on h (stated for the executions whose bootstrap
\* succeeded).
C10_FreeDropsScarce ==
    /\ ready = "resolved"
    /\ lastOp.op = "free"
    /\ objs[lastOp.obj].cls \in { "Pixmap", "Buffer", "Document" }
    /\ objs[lastOp.obj].dropFunction # "undefined"
    /\ ~lastOp.freed
    /\ lastOp.ptr # 0
    => Call(ScarceDrop(objs[lastOp.obj].cls), << lastOp.ptr >>)
         \in Range(lastOp.calls)

OwnedDrop(cls) ==
    CASE cls = "Document" -> "_wasm_drop_document"
      [] cls = "Page" -> "_wasm_drop_page"
      [] cls = "Pixmap" -> "_wasm_drop_pixmap"
      [] cls = "Buffer" -> "_wasm_drop_buffer"
      [] cls = "Output" -> "_wasm_drop_output"
      [] cls = "STextPage" -> "_wasm_drop_stext_page"

\* C11: when the collector finalizes a Document, Page, Pixmap, Buffer,
\* Output or STextPage that was never freed (and was bound once the module
\* is instantiated), the foreign release entry point of its type is invoked
\* with the handle bound at construction.  The registry runs the callback
\* of an object once, so a finalization that released nothing is final.
C11_CollectorReleasesOwned ==
    /\ lastOp.op = "finalize"
    /\ objs[lastOp.obj].cls \in
         { "Document", "Page", "Pixmap", "Buffer", "Output", "STextPage" }
    /\ objs[lastOp.obj].dropFunction # "undefined"
    /\ ~lastOp.freed
    => lastOp.calls =
         << Call(OwnedDrop(objs[lastOp.obj].cls), << lastOp.ptr >>) >>

\* C20: once free() has zeroed the pointer of a resource, no traversal
\* method of that resource passes a non-zero handle to the foreign first
\* accessor.
C20_NoStaleHandleAfterFree ==
    /\ lastOp.op \in { "loadLinks", "annotations" }
    /\ lastOp.freed
    /\ objs[lastOp.obj].pointer = 0
    /\ lastOp.calls # << >>
    => lastOp.calls[1].args = << 0 >>

\* C12: Document.openFromData(data, magic) allocates foreign memory for the
\* bytes, calls wasm_open_document_with_buffer with that offset, the byte
\* length and the format hint, and returns a Document whose handle is the
\* handle that call returned and whose release routine is
\* _wasm_drop_document.
C12_OpenFromDataReturnsDocument ==
    lastOp.op = "openFromData" /\ ready = "resolved" =>
        /\ lastOp.err = "none"
        /\ Len(lastOp.calls) = 2
        /\ lastOp.calls[1] = Call("_malloc", << lastOp.args[1] >>)
        /\ lastOp.mallocs # << >>
        /\ lastOp.calls[2] =
             Call("wasm_open_document_with_buffer",
                  << lastOp.mallocs[1], lastOp.args[1], lastOp.args[2] >>)
        /\ lastOp.out # << >>
        /\ objs[lastOp.out[1]].cls = "Document"
        /\ objs[lastOp.out[1]].pointer = lastOp.rets[1]
        /\ objs[lastOp.out[1]].dropFunction = "_wasm_drop_document"

\* C13: Document.loadPage(p) calls _wasm_load_page with the document's
\* handle and the index p - 1, so 1..n maps one-to-one onto 0..n-1, and a
\* completed call returns a PdfPage carrying the secondary handle exactly
\* when _wasm_pdf_page_from_fz_page returned a non-zero handle, otherwise a
\* plain Page; either wraps the page handle the engine returned.
C13_LoadPageIndexAndVariant ==
    /\ \A p1, p2 \in 1..MaxPages :
         /\ PageIndex(p1) \in 0..(MaxPages - 1)
         /\ PageIndex(p1) = PageIndex(p2) => p1 = p2
    /\ lastOp.op = "loadPage" /\ lastOp.calls # << >> =>
         lastOp.calls[1] =
           Call("_wasm_load_page", << lastOp.ptr, lastOp.args[1] - 1 >>)
    /\ lastOp.op = "loadPage" /\ lastOp.err = "none" =>
         /\ Len(lastOp.calls) = 2
         /\ lastOp.calls[2] =
              Call("_wasm_pdf_page_from_fz_page", << lastOp.rets[1] >>)
         /\ lastOp.out # << >>
         /\ LET page == objs[lastOp.out[1]] IN
            /\ page.pointer = lastOp.rets[1]
            /\ page.cls = "PdfPage" <=> lastOp.rets[2] # 0
            /\ page.cls = "Page" <=> lastOp.rets[2] = 0
            /\ page.pdfPagePointer = lastOp.rets[2]

\* loadPage of a page number above 1 has returned a PdfPage.
C13_Witness ==
    /\ lastOp.op = "loadPage"
    /\ lastOp.err = "none"
    /\ lastOp.args[1] > 1
    /\ lastOp.out # << >>
    /\ objs[lastOp.out[1]].cls = "PdfPage"
    /\ objs[lastOp.out[1]].pdfPagePointer # 0

\* C16: a completed Pixmap.samples() returns a view that starts at the
\* engine's samples offset p and has length stride * height, the byte range
\* [p, p + stride*height).
C16_SamplesCoversStrideTimesHeight ==
    lastOp.op = "samples" /\ lastOp.err = "none" =>
        lastOp.out = << lastOp.rets[3], lastOp.rets[1] * lastOp.rets[2] >>

\* C17: once Pixmap.toPNG has obtained the temporary buffer it calls
\* _wasm_drop_buffer on it exactly once on every exit path (normal return,
\* failure reading the data offset or the size, failure copying), as the
\* last call and so after the copy, and the buffer is not live in the
\* engine when the call is over; when the encoder failed there is nothing
\* to release.
C17_ToPNGReleasesBuffer ==
    /\ \A b \in bufs : b.h # TempBuf
    /\ lastOp.op = "toPNG" /\ lastOp.rets = << >> =>
         Calls("_wasm_drop_buffer") = {}
    /\ lastOp.op = "toPNG" /\ lastOp.rets # << >> =>
         /\ Calls("_wasm_drop_buffer") = { Len(lastOp.calls) }
         /\ lastOp.calls[Len(lastOp.calls)].args = << lastOp.rets[1] >>
         /\ \A i \in Calls("HEAPU8.slice") : i < Len(lastOp.calls)
         /\ lastOp.err = "none" =>
              /\ Calls("HEAPU8.slice") # {}
              /\ lastOp.out = << lastOp.rets[2], lastOp.rets[2] + lastOp.rets[3] >>

\* toPNG obtained the buffer and then failed inside the try block.
C17_Witness ==
    /\ lastOp.op = "toPNG"
    /\ lastOp.rets # << >>
    /\ lastOp.err = "MupdfError"
    /\ Calls("_wasm_drop_buffer") # {}

\* A completed decode of count words at a word-aligned offset p returned
\* the words at indices p/4 .. p/4 + count - 1, in that order, read
\* through view.
DecodedAt(op, view, count) ==
    lastOp.op = op /\ lastOp.err = "none" /\ lastOp.ptr % 4 = 0 =>
        /\ Len(lastOp.out) = count
        /\ \A i \in 1..count :
             /\ (lastOp.ptr \div 4) + i - 1 \in Words =>
                  lastOp.out[i] = HEAP32[(lastOp.ptr \div 4) + i - 1]
             /\ lastOp.calls[i] = Call(view, << (lastOp.ptr \div 4) + i - 1 >>)

\* C15: for every word-aligned offset p and every memory content,
\* _to_rect(p) and _to_irect(p) return the four words at indices p/4 ..
\* p/4+3 in order (through the float and the integer view), _to_matrix(p)
\* the six at p/4 .. p/4+5, and no step of a decoder changes the memory.
C15_DecodersReadInOrder ==
    /\ [](/\ DecodedAt("_to_rect", "HEAPF32", 4)
          /\ DecodedAt("_to_irect", "HEAP32", 4)
          /\ DecodedAt("_to_matrix", "HEAPF32", 6))
    /\ [][HEAP32' = HEAP32 /\ HEAPU8' = HEAPU8]_vars

\* _to_matrix has decoded six words that are not all equal from a
\* word-aligned offset above 0.
C15_Witness ==
    /\ lastOp.op = "_to_matrix"
    /\ lastOp.err = "none"
    /\ lastOp.ptr % 4 = 0
    /\ lastOp.ptr > 0
    /\ \A i \in 1..6 : lastOp.out[i] >= 0
    /\ lastOp.out[1] # lastOp.out[2]

\* C19: Page.search allocates the scratch array for MAX_HIT_COUNT (500)
\* quads and passes that maximum to _wasm_search_page; when the scratch
\* array was obtained and the search reports k hits, 0 <= k <= 500, search
\* returns exactly k rectangles, the i-th decoded from the slot at
\* hits_ptr + i * quad size, every slot read lies inside the scratch
\* array, and k = 0 gives the empty sequence.
C19_SearchDecodesKSlots ==
    lastOp.op = "search" /\ Calls("_wasm_search_page") # {} =>
        LET hits_ptr == lastOp.mallocs[1]
            reads == Calls("_wasm_rect_from_quad")
        IN
        /\ lastOp.calls[2] = Call("_malloc", << SizeOfQuad * 500 >>)
        /\ \A i \in Calls("_wasm_search_page") :
             /\ lastOp.calls[i].args[3] = hits_ptr
             /\ lastOp.calls[i].args[4] = 500
        /\ hits_ptr # 0 =>
             \A i \in reads :
               /\ lastOp.calls[i].args[1] >= hits_ptr
               /\ lastOp.calls[i].args[1] + SizeOfQuad
                    <= hits_ptr + lastOp.calls[2].args[1]
        /\ hits_ptr # 0 /\ lastOp.err = "none" =>
             LET k == lastOp.rets[1] IN
             /\ Len(lastOp.out) = k
             /\ Cardinality(reads) = k
             /\ \A i \in 0..(k - 1) :
                  /\ lastOp.out[i + 1] = hits_ptr + i * SizeOfQuad
                  /\ \E j \in reads :
                       lastOp.calls[j].args = << lastOp.out[i + 1] >>
             /\ k = 0 => lastOp.out = << >>

\* A search that reported the maximum number of hits has returned.
C19_Witness ==
    /\ lastOp.op = "search"
    /\ lastOp.err = "none"
    /\ lastOp.mallocs[1] # 0
    /\ lastOp.rets = << MAX_HIT_COUNT >>
    /\ Len(lastOp.out) = MAX_HIT_COUNT

C18_OutlineWalkVisitsEachOnce ==
    /\ lastOp.op \in { "loadOutline", "down", "next" } /\ lastOp.err = "none" =>
         /\ lastOp.out = << >> <=> lastOp.rets[1] = 0
         /\ lastOp.out # << >> =>
              /\ objs[lastOp.out[1]].cls = "Outline"
              /\ objs[lastOp.out[1]].pointer = lastOp.rets[1]
    /\ \A i, j \in DOMAIN walk.visited :
         /\ walk.visited[i] \in 1..outline.n
         /\ walk.visited[i] = walk.visited[j] => i = j
    /\ walk.phase = "walking" => ENABLED WalkStep
    /\ walk.phase = "done" =>
         /\ Range(walk.visited) = 1..outline.n
         /\ Len(walk.visited) = outline.n

\* A walk over a tree in which the root has a child and that child has a
\* sibling is over.
C18_Witness ==
    /\ walk.phase = "done"
    /\ outline.n >= 3
    /\ outline.down[1] # 0
    /\ outline.next[outline.down[1]] # 0

====
